---------------------------- MODULE Spec2Model ----------------------------
(***************************************************************************)
(* A model of the Shopify extraction pipeline:                             *)
(*   shopify_dlt_pipeline.py  load_all_resources, run_loader,              *)
(*                            incremental_load_with_backloading            *)
(*   shopify_extras.py        the secondary loaders (cursor pagination,    *)
(*                            Link-header enumeration, per-parent fan-out) *)
(* Each part of the program has its own specification over the variables   *)
(* it uses; the other variables keep their initial value.  SpecSecondary   *)
(* is one call of any of the seven secondary loaders.                      *)
(***************************************************************************)
EXTENDS Integers, Sequences, FiniteSets, TLC

(***************************************************************************)
(* Bounds of the model.                                                    *)
(***************************************************************************)
\* latest value of pendulum.now(), in days after min_start_date
MaxNow == 20
\* most pages one paginated collection serves
MaxPages == 3
\* most edges on one page
MaxNodes == 2
\* most locations the shop has
MaxLocs == 2
\* most inventoryLevels pages one location has
MaxLocPages == 2
\* most edges on one inventoryLevels page
MaxLocNodes == 1
\* most pages the REST endpoint has for one parent collection
MaxRestPages == 3
\* most parent ids on one REST page
MaxIds == 2
\* most requests one enumeration loop is followed for
MaxEnumReqs == 4
\* most parent ids an enumeration hands to the fan-out
MaxParents == 3
\* most metafields one parent has
MaxMeta == 2

(***************************************************************************)
(* Program constants.                                                      *)
(***************************************************************************)
\* pendulum.datetime(2025, 10, 1), the origin of the day count
min_start_date == 0
\* current_start_date.add(weeks=1)
WeekDays == 7

\* Python's None (an absent cursor, an absent end date)
None == <<>>

Min(a, b) == IF a < b THEN a ELSE b

VARIABLES
    \* ---- incremental_load_with_backloading ----
    max_end_date,        \* pendulum.now() read once at line 101
    current_start_date,  \* cursor of the window-building loop
    ranges,              \* the list of (start_date, end_date) windows
    bfPc,                \* position in the function
    idx,                 \* enumerate(ranges, start=1): the chunk in hand
    bfIssued,            \* history: extractions handed to pipeline.run, in order
    bfCompleted,         \* history: number of chunks whose run returned
    bfFailedAt,          \* history: the chunk whose run raised (0: none)
    \* ---- load_all_resources / run_loader ----
    laPc,                \* position in load_all_resources
    laNext,              \* the run_loader call to make next (1..7)
    laPrimary,           \* history: how the source init and the core run ended
    laStarted,           \* history: loaders started, in order
    laLog,               \* history: what run_loader logged for each loader
    \* ---- the sink behind pipeline.run ----
    sink,                \* resource name -> the records the sink holds
    \* ---- dlt.config, as the secondary loaders read it ----
    shop_url,            \* sources.shopify_dlt.shop_url
    access_token,        \* sources.shopify_dlt.private_app_password
    \* ---- load_pages / load_blogs / load_articles ----
    cqRes,               \* which of the three resources is loaded
    cqServer,            \* the pages the endpoint has served so far
    after,               \* the generator's local: the cursor to send
    total,               \* the generator's local: records yielded so far
    cqPc,                \* position in the generator / the loader
    cqResp,              \* the response in hand (data[...] of line 224)
    cqReqs,              \* history: the requests sent, in order
    cqYield,             \* history: the nodes yielded, in order
    cqErr,               \* the exception that ended the generator, if any
    \* ---- load_inventory_levels_gql ----
    ivPrior,             \* history: what the sink held of inventory_levels
                         \* when the loader was called
    locations,           \* the location ids of line 36
    ivLoc,               \* the for loop's position in locations
    ivServer,            \* the pages served so far for the location in hand
    ivAfter,             \* after
    has_next_page,
    total_records,
    loc_total,
    ivPc,                \* position in the function
    ivResp,              \* the response in hand
    ivLast,              \* history: the last inventory response received
    ivTrace,             \* history: requests, sink calls and sleeps, in order
    ivErr,               \* the exception caught at line 137, if any
    \* ---- the parent-id enumeration loops of the REST loaders ----
    enLoop,              \* which loop runs
    enServer,            \* the REST pages served so far
    enUrl,               \* pages_url / products_url / url
    enIds,               \* page_ids / product_ids / collection_ids
    enPc,                \* position: in the loop, past it, or raised
    enEntries,           \* the entries of the last response's Link header
    enNextUrl,           \* next_url as parsed from the last response
    enReqs,              \* history: the page each request asked for
    enErr,
    \* ---- the REST fan-out loaders ----
    foLoader,            \* which loader runs
    foPhase,             \* "main", or "handler": the except block of
                         \* load_products_metafields (lines 487-529)
    foPc,                \* position in the loader
    foIds,               \* page_ids / collection_ids / product_ids
    foAt,                \* the for loop's position in foIds
    foYield,             \* the records the generator in hand has yielded
    total_metafields,
    foTrace,             \* history of the pass in hand: requests and sleeps
    foWarned,            \* history: parents a warning was logged for
    foErr,               \* the exception the loader's except caught
    foPasses             \* history: enumerations started by this call

bfVars == <<max_end_date, current_start_date, ranges, bfPc, idx,
            bfIssued, bfCompleted, bfFailedAt>>

laVars == <<laPc, laNext, laPrimary, laStarted, laLog>>

cqVars == <<cqRes, cqServer, after, total, cqPc, cqResp, cqReqs, cqYield,
            cqErr>>

ivVars == <<ivPrior, locations, ivLoc, ivServer, ivAfter, has_next_page,
            total_records, loc_total, ivPc, ivResp, ivLast, ivTrace, ivErr>>

enVars == <<enLoop, enServer, enUrl, enIds, enPc, enEntries, enNextUrl,
            enReqs, enErr>>

foVars == <<foLoader, foPhase, foPc, foIds, foAt, foYield, total_metafields,
            foTrace, foWarned, foErr, foPasses>>

cfgVars == <<shop_url, access_token>>

vars == <<bfVars, laVars, sink, cfgVars, cqVars, ivVars, enVars, foVars>>

\* what each part leaves alone
notBf == <<laVars, sink, cfgVars, cqVars, ivVars, enVars, foVars>>
notLa == <<bfVars, sink, cfgVars, cqVars, ivVars, enVars, foVars>>
notCq == <<bfVars, laVars, cfgVars, ivVars, enVars, foVars>>
notIv == <<bfVars, laVars, cfgVars, cqVars, enVars, foVars>>
notEn == <<bfVars, laVars, sink, cfgVars, cqVars, ivVars, foVars>>
notFo == <<bfVars, laVars, cfgVars, cqVars, ivVars, enVars>>

(***************************************************************************)
(* The state each part is in before it runs; a specification of one part   *)
(* leaves the other parts there.                                           *)
(***************************************************************************)
BfIdle ==
    /\ max_end_date = min_start_date
    /\ current_start_date = min_start_date
    /\ ranges = <<>>
    /\ bfPc = "idle"
    /\ idx = 0
    /\ bfIssued = <<>>
    /\ bfCompleted = 0
    /\ bfFailedAt = 0

LaIdle ==
    /\ laPc = "idle"
    /\ laNext = 1
    /\ laPrimary = <<>>
    /\ laStarted = <<>>
    /\ laLog = <<>>

\* the resources the secondary loaders write
SinkResources == {"pages", "blogs", "articles", "pages_metafields",
                  "collections_metafields", "products_metafields",
                  "inventory_levels"}

SinkEmpty == sink = [r \in SinkResources |-> <<>>]

\* the value of a configuration key that is set; dlt.config.get gives None
\* for one that is not
ConfigValue == <<"value">>
ConfigValues == {None, ConfigValue}

\* the configuration of a deployment that loads every resource
ConfigSet ==
    /\ shop_url = ConfigValue
    /\ access_token = ConfigValue

\* any configuration: each of the two keys set or not
ConfigAny ==
    /\ shop_url \in ConfigValues
    /\ access_token \in ConfigValues

\* if not shop_url or not access_token (lines 11, 145, 248, 288, 319, 366,
\* 414, 491)
ConfigMissingBoth(url, token) == url = None /\ token = None
ConfigMissing(url, token) == url = None \/ token = None

NoResp == [edges |-> <<>>, hasPageInfo |-> FALSE, hasNextPage |-> FALSE,
           endCursor |-> None]

CqIdle ==
    /\ cqRes = "pages"
    /\ cqServer = <<>>
    /\ after = None
    /\ total = 0
    /\ cqPc = "idle"
    /\ cqResp = NoResp
    /\ cqReqs = <<>>
    /\ cqYield = <<>>
    /\ cqErr = "none"

NoLast == [loc |-> 0, page |-> 0, n |-> 0, shape |-> "none",
           hasNextPage |-> FALSE]

IvIdle ==
    /\ ivPrior = <<>>
    /\ locations = <<>>
    /\ ivLoc = 0
    /\ ivServer = <<>>
    /\ ivAfter = None
    /\ has_next_page = FALSE
    /\ total_records = 0
    /\ loc_total = 0
    /\ ivPc = "idle"
    /\ ivResp = NoResp
    /\ ivLast = NoLast
    /\ ivTrace = <<>>
    /\ ivErr = "none"

EnIdle ==
    /\ enLoop = "none"
    /\ enServer = <<>>
    /\ enUrl = None
    /\ enIds = <<>>
    /\ enPc = "idle"
    /\ enEntries = <<>>
    /\ enNextUrl = None
    /\ enReqs = <<>>
    /\ enErr = "none"

FoIdle ==
    /\ foLoader = "none"
    /\ foPhase = "main"
    /\ foPc = "idle"
    /\ foIds = <<>>
    /\ foAt = 0
    /\ foYield = <<>>
    /\ total_metafields = 0
    /\ foTrace = <<>>
    /\ foWarned = <<>>
    /\ foErr = "none"
    /\ foPasses = 0

(***************************************************************************)
(* incremental_load_with_backloading (shopify_dlt_pipeline.py 92-130)      *)
(***************************************************************************)
BfInit ==
    /\ max_end_date \in (min_start_date - 1)..MaxNow
    /\ current_start_date = min_start_date
    /\ ranges = <<>>
    /\ bfPc = "build"
    /\ idx = 0
    /\ bfIssued = <<>>
    /\ bfCompleted = 0
    /\ bfFailedAt = 0
    /\ LaIdle
    /\ SinkEmpty
    /\ ConfigSet
    /\ CqIdle
    /\ IvIdle
    /\ EnIdle
    /\ FoIdle

\* end_date = min(current_start_date.add(weeks=1), max_end_date)
WindowEndNoClip(cur, now) == cur + WeekDays
WindowEnd(cur, now) == Min(cur + WeekDays, now)

\* line 104: while current_start_date < max_end_date
WindowLoopGuardInclusive(cur, now) == cur <= now
WindowLoopGuard(cur, now) == cur < now

\* one iteration of the while loop of lines 104-107
BuildWindow ==
    /\ bfPc = "build"
    /\ WindowLoopGuard(current_start_date, max_end_date)
    /\ LET end_date == WindowEnd(current_start_date, max_end_date)
       IN /\ ranges' = Append(ranges, <<current_start_date, end_date>>)
          /\ current_start_date' = end_date
    /\ UNCHANGED <<max_end_date, bfPc, idx, bfIssued, bfCompleted, bfFailedAt>>
    /\ UNCHANGED notBf

\* the loop condition of line 104 is false: line 109, then the for loop
\* starts (or, with no window, falls through to line 124)
BuildDone ==
    /\ bfPc = "build"
    /\ ~WindowLoopGuard(current_start_date, max_end_date)
    /\ bfPc' = IF Len(ranges) > 0 THEN "chunk" ELSE "incremental"
    /\ idx' = IF Len(ranges) > 0 THEN 1 ELSE 0
    /\ UNCHANGED <<max_end_date, current_start_date, ranges,
                   bfIssued, bfCompleted, bfFailedAt>>
    /\ UNCHANGED notBf

\* lines 112-118: the chunk's source is built and handed to pipeline.run
ChunkStart ==
    /\ bfPc = "chunk"
    /\ bfIssued' = Append(bfIssued,
           [resource |-> "customers", start_date |-> ranges[idx][1],
            end_date |-> ranges[idx][2], created_at_min |-> min_start_date])
    /\ bfPc' = "chunk_running"
    /\ UNCHANGED <<max_end_date, current_start_date, ranges, idx,
                   bfCompleted, bfFailedAt>>
    /\ UNCHANGED notBf

\* where the for loop goes after chunk i: the next chunk, or past the loop
AfterChunkOkPc(i) == IF i < Len(ranges) THEN "chunk" ELSE "incremental"
\* the except branch of lines 120-122 ends in break
AfterChunkFailContinue(i) == IF i < Len(ranges) THEN "chunk" ELSE "incremental"
AfterChunkFailPc(i) == "incremental"

\* line 118 returns (line 119), or raises (lines 120-122: log and break)
ChunkEnd ==
    /\ bfPc = "chunk_running"
    /\ \E ok \in BOOLEAN :
         IF ok
         THEN /\ bfCompleted' = bfCompleted + 1
              /\ bfPc' = AfterChunkOkPc(idx)
              /\ idx' = IF idx < Len(ranges) THEN idx + 1 ELSE idx
              /\ UNCHANGED bfFailedAt
         ELSE /\ bfFailedAt' = IF bfFailedAt = 0 THEN idx ELSE bfFailedAt
              /\ bfPc' = AfterChunkFailPc(idx)
              /\ idx' = IF bfPc' = "chunk" THEN idx + 1 ELSE idx
              /\ UNCHANGED bfCompleted
    /\ UNCHANGED <<max_end_date, current_start_date, ranges, bfIssued>>
    /\ UNCHANGED notBf

\* lines 124-129: the incremental extraction anchored at max_end_date;
\* it is outside any try, so a failure of pipeline.run propagates
IncrementalStart ==
    /\ bfPc = "incremental"
    /\ bfIssued' = Append(bfIssued,
           [resource |-> "orders", start_date |-> max_end_date,
            end_date |-> None, created_at_min |-> min_start_date])
    /\ bfPc' = "incremental_running"
    /\ UNCHANGED <<max_end_date, current_start_date, ranges, idx,
                   bfCompleted, bfFailedAt>>
    /\ UNCHANGED notBf

IncrementalEnd ==
    /\ bfPc = "incremental_running"
    /\ \E ok \in BOOLEAN : bfPc' = IF ok THEN "done" ELSE "raised"
    /\ UNCHANGED <<max_end_date, current_start_date, ranges, idx,
                   bfIssued, bfCompleted, bfFailedAt>>
    /\ UNCHANGED notBf

BfNext ==
    \/ BuildWindow
    \/ BuildDone
    \/ ChunkStart
    \/ ChunkEnd
    \/ IncrementalStart
    \/ IncrementalEnd

SpecBackfill == BfInit /\ [][BfNext]_vars

\* The window-building loop is plain sequential code with no call that can
\* block: whenever one of its steps can be taken, it is taken.
SpecBackfillFair ==
    /\ BfInit
    /\ [][BfNext]_vars
    /\ WF_vars(BuildWindow)
    /\ WF_vars(BuildDone)

(***************************************************************************)
(* Claims about incremental_load_with_backloading                          *)
(***************************************************************************)
\* the window extractions issued so far, in the order they were issued
WindowsIssued == SelectSeq(bfIssued, LAMBDA x : x.resource = "customers")
IncrementalIssued == SelectSeq(bfIssued, LAMBDA x : x.resource = "orders")

\* C5: the windows are half-open and non-empty, one week wide except a last
\* one clipped to now, contiguous, ascending, and once the loop has ended
\* they cover exactly [min_start_date, now); for now = 2025-10-20 (day 19)
\* they are [0,7), [7,14), [14,19).
C5_WindowCoverage ==
    /\ \A i \in 1..Len(ranges) :
          /\ ranges[i][1] < ranges[i][2]
          /\ ranges[i][2] <= max_end_date
          /\ i < Len(ranges) => ranges[i][2] - ranges[i][1] = WeekDays
          /\ ranges[i][2] - ranges[i][1] <= WeekDays
          /\ i = 1 => ranges[i][1] = min_start_date
          /\ i > 1 => ranges[i][1] = ranges[i - 1][2]
    /\ bfPc # "build" =>
          /\ min_start_date < max_end_date =>
                /\ Len(ranges) > 0
                /\ ranges[Len(ranges)][2] = max_end_date
          /\ max_end_date = 19 => ranges = << <<0, 7>>, <<7, 14>>, <<14, 19>> >>

C5_Witness ==
    /\ bfPc = "done"
    /\ max_end_date = 19
    /\ Len(ranges) = 3
    /\ ranges[3][2] - ranges[3][1] < WeekDays

\* C6: window extractions are issued one at a time in ascending window
\* order, window i+1 only after window i completed, and after the
\* extraction of window i failed no later window is issued.
C6_OrderedAbort ==
    /\ Len(WindowsIssued) <= Len(ranges)
    /\ \A k \in 1..Len(WindowsIssued) :
          /\ WindowsIssued[k].start_date = ranges[k][1]
          /\ WindowsIssued[k].end_date = ranges[k][2]
    /\ Len(WindowsIssued) <= bfCompleted + 1
    /\ bfPc = "chunk_running" => Len(WindowsIssued) = bfCompleted + 1
    /\ bfFailedAt # 0 => Len(WindowsIssued) = bfFailedAt

C6_Witness ==
    /\ bfPc = "done"
    /\ Len(ranges) = 3
    /\ bfFailedAt = 2
    /\ Len(WindowsIssued) = 2

\* C7: the incremental extraction is issued at most once, only after every
\* backfill window completed, and never once a window failure aborted the
\* backfill.
C7_AbortedIssuesNothing ==
    /\ Len(IncrementalIssued) <= 1
    /\ Len(IncrementalIssued) = 1 => bfCompleted = Len(ranges)
    /\ bfFailedAt # 0 => Len(IncrementalIssued) = 0

\* C23: every iteration of the window-building loop moves
\* current_start_date strictly forward and never past max_end_date, the loop
\* ends, and when the start date is not before now it builds no window and
\* the function issues the single incremental extraction and nothing else.
C23_WindowLoopTerminates ==
    /\ [][(bfPc = "build" /\ ranges' # ranges) =>
             /\ current_start_date < current_start_date'
             /\ current_start_date' <= max_end_date
             /\ Len(ranges') = Len(ranges) + 1]_vars
    /\ <>(bfPc # "build")
    /\ [](~(min_start_date < max_end_date) =>
             /\ ranges = <<>>
             /\ WindowsIssued = <<>>
             /\ bfPc \in {"incremental_running", "done", "raised"} =>
                   /\ Len(bfIssued) = 1
                   /\ bfIssued[1].resource = "orders"
                   /\ bfIssued[1].start_date = max_end_date)

C23_Witness ==
    /\ bfPc = "done"
    /\ max_end_date = min_start_date
    /\ ranges = <<>>
    /\ Len(bfIssued) = 1

(***************************************************************************)
(* load_all_resources and run_loader (shopify_dlt_pipeline.py 34-86)       *)
(***************************************************************************)
\* the run_loader calls of lines 73-79, in program order
LoaderOrder == <<"pages", "pages_metafields", "collections_metafields",
                 "products_metafields", "blogs", "articles",
                 "inventory_levels_gql">>

\* How a call fn(pipeline) can end: it returns after a clean load, it
\* returns after its own try/except swallowed a failure, or an exception
\* leaves it (as from the except handler of load_products_metafields,
\* lines 487-529, which issues requests outside any try).
FnOutcomes == {"ok", "swallowed", "raised"}

LaInit ==
    /\ laPc = "source"
    /\ laNext = 1
    /\ laPrimary = <<>>
    /\ laStarted = <<>>
    /\ laLog = <<>>
    /\ BfIdle
    /\ SinkEmpty
    /\ ConfigSet
    /\ CqIdle
    /\ IvIdle
    /\ EnIdle
    /\ FoIdle

\* lines 84-86: an exception of the try body is logged and re-raised, so
\* the function is left instead of going on at nextPc
AfterPrimaryFailGoesOn(nextPc) == nextPc
AfterPrimaryFailPc(nextPc) == "raised"

\* line 65: shopify_source(...).with_resources(...); a failure goes to the
\* except of lines 84-86
SourceInit ==
    /\ laPc = "source"
    /\ \E ok \in BOOLEAN :
         /\ laPc' = IF ok THEN "core" ELSE AfterPrimaryFailPc("core")
         /\ laPrimary' = Append(laPrimary, IF ok THEN "ok" ELSE "raised")
    /\ UNCHANGED <<laNext, laStarted, laLog>>
    /\ UNCHANGED notLa

\* line 68: the core pipeline run of the primary resources
CoreRun ==
    /\ laPc = "core"
    /\ \E ok \in BOOLEAN :
         /\ laPc' = IF ok THEN "loaders" ELSE AfterPrimaryFailPc("loaders")
         /\ laPrimary' = Append(laPrimary, IF ok THEN "ok" ELSE "raised")
    /\ UNCHANGED <<laNext, laStarted, laLog>>
    /\ UNCHANGED notLa

\* How a loader's call ended, from where it stopped and the exception its
\* own except clause caught (shopify_extras.py 137, 240, 280, 312, 359,
\* 406): the clause prints the exception and the loader returns normally;
\* only the handler of load_products_metafields lets one escape.
LoaderOutcome(pc, err) ==
    IF pc = "escaped" THEN "raised"
    ELSE IF err # "none" THEN "swallowed"
    ELSE "ok"

\* run_loader, lines 38-46: what it logs and whether the exception of
\* fn(pipeline) leaves it (the except branch returns None)
RunLoaderLogged(outcome) == IF outcome = "raised" THEN "failed" ELSE "complete"
RunLoaderReraises(outcome) == outcome = "raised"
RunLoaderEscapes(outcome) == FALSE

\* one run_loader call of lines 73-79
RunLoader ==
    /\ laPc = "loaders"
    /\ \E outcome \in FnOutcomes :
         /\ laStarted' = Append(laStarted, LoaderOrder[laNext])
         /\ laLog' = Append(laLog, [name |-> LoaderOrder[laNext],
                                    fn |-> outcome,
                                    logged |-> RunLoaderLogged(outcome)])
         /\ IF RunLoaderEscapes(outcome)
            THEN /\ laPc' = "raised"
                 /\ UNCHANGED laNext
            ELSE IF laNext < Len(LoaderOrder)
            THEN /\ laNext' = laNext + 1
                 /\ UNCHANGED laPc
            ELSE /\ laPc' = "done"
                 /\ UNCHANGED laNext
    /\ UNCHANGED laPrimary
    /\ UNCHANGED notLa

LaNext ==
    \/ SourceInit
    \/ CoreRun
    \/ RunLoader

SpecLoaders == LaInit /\ [][LaNext]_vars

(***************************************************************************)
(* Claims about load_all_resources                                         *)
(***************************************************************************)
IsPrefix(s, t) == Len(s) <= Len(t) /\ \A i \in 1..Len(s) : s[i] = t[i]

\* C10: once the core run has succeeded, the seven secondary loaders are
\* started exactly once each in the fixed order, whatever subset of them
\* fails, and no loader's exception leaves run_loader.
C10_LoaderIndependence ==
    /\ IsPrefix(laStarted, LoaderOrder)
    /\ laPc = "loaders" => Len(laStarted) = laNext - 1
    /\ laPc = "done" => laStarted = LoaderOrder
    /\ Len(laStarted) > 0 => laPc \in {"loaders", "done"}

C10_Witness ==
    /\ laPc = "done"
    /\ laLog[1].fn = "raised"
    /\ laLog[4].fn = "raised"
    /\ laLog[7].fn = "swallowed"
    /\ laStarted = LoaderOrder

\* C11: load_all_resources raises exactly when the source initialisation
\* or the core run of the primary resources raised; then no secondary
\* loader was started; and a secondary loader's failure, however many of
\* them fail, never makes load_all_resources raise.
C11_PrimaryFatalOnly ==
    /\ (laPc = "raised") <=> (\E i \in 1..Len(laPrimary) :
                                 laPrimary[i] = "raised")
    /\ laPc = "raised" => laStarted = <<>>
    /\ (\E i \in 1..Len(laLog) : laLog[i].fn = "raised") => laPc # "raised"
    /\ (laPc \in {"loaders", "done"}) <=> (laPrimary = <<"ok", "ok">>)

C11_Witness ==
    /\ laPc = "done"
    /\ laPrimary = <<"ok", "ok">>
    /\ \A i \in 1..Len(LoaderOrder) : laLog[i].fn = "raised"

(***************************************************************************)
(* The GraphQL endpoint and the sink, as the loaders see them              *)
(***************************************************************************)
\* the endCursor the endpoint gives with its i-th page
Cursor(i) == <<i>>

\* the page a request with variable "after" asks for
PageFor(a) == IF a = None THEN 1 ELSE a[1] + 1

\* the nodes of the i-th page of a connection that holds n of them
PageNodes(i, n) == [j \in 1..n |-> <<i, j>>]

\* A page the endpoint may serve as its i-th of at most maxPages: up to
\* maxNodes nodes, and more pages to come unless it is the last one.
ServerPages(i, maxPages, maxNodes) ==
    { [n |-> n, hasNextPage |-> h] :
        n \in 0..maxNodes, h \in IF i < maxPages THEN BOOLEAN ELSE {FALSE} }

\* the body of a response carrying the i-th page pg; a malformed one
\* lacks the pageInfo key
Response(i, pg, shape) ==
    [edges |-> PageNodes(i, pg.n),
     hasPageInfo |-> shape # "no_pageInfo",
     hasNextPage |-> pg.hasNextPage,
     endCursor |-> Cursor(i)]

\* pipeline.run of a resource: the sink's put(resource_name,
\* write_disposition, records); "replace" truncates the prior contents
SinkPut(s, name, disposition, records) ==
    [s EXCEPT ![name] = IF disposition = "replace" THEN records
                        ELSE s[name] \o records]

(***************************************************************************)
(* pages_resource, blogs_resource, articles_resource                       *)
(* (shopify_extras.py 212-241, 337-360, 384-407): the same loop thrice     *)
(***************************************************************************)
CqResources == {"pages", "blogs", "articles"}

\* how one requests.post of the loop can end
CqOutcomes == {"ok", "no_pageInfo", "http_error", "transport"}

CqInit ==
    /\ cqRes \in CqResources
    /\ cqServer = <<>>
    /\ after = None
    /\ total = 0
    /\ cqPc = "start"
    /\ cqResp = NoResp
    /\ cqReqs = <<>>
    /\ cqYield = <<>>
    /\ cqErr = "none"
    /\ SinkEmpty
    /\ ConfigAny
    /\ BfIdle
    /\ LaIdle
    /\ IvIdle
    /\ EnIdle
    /\ FoIdle

\* lines 143-146 (318-321, 365-368): without the shop URL or the token the
\* loader returns before anything else
CqStart ==
    /\ cqPc = "start"
    /\ cqPc' = IF ConfigMissing(shop_url, access_token) THEN "returned"
              ELSE "request"
    /\ UNCHANGED <<cqRes, cqServer, after, total, cqResp, cqReqs, cqYield,
                   cqErr, sink>>
    /\ UNCHANGED notCq

\* lines 218-224: requests.post, raise_for_status, resp.json()["data"][...].
\* The endpoint serves the page after the cursor it is sent: a page it has
\* served before is served again unchanged, a new one is any page.
CqRequest ==
    /\ cqPc = "request"
    /\ \E outcome \in CqOutcomes :
         /\ cqReqs' = Append(cqReqs, [after |-> after, outcome |-> outcome])
         /\ IF outcome \in {"transport", "http_error"}
            THEN /\ cqPc' = "raised"
                 /\ cqErr' = outcome
                 /\ UNCHANGED <<cqServer, cqResp>>
            ELSE LET i == PageFor(after)
                 IN /\ i <= Len(cqServer) + 1
                    /\ \E pg \in IF i <= Len(cqServer) THEN {cqServer[i]}
                                 ELSE ServerPages(i, MaxPages, MaxNodes) :
                         /\ cqServer' = IF i <= Len(cqServer) THEN cqServer
                                        ELSE Append(cqServer, pg)
                         /\ cqResp' = Response(i, pg, outcome)
                    /\ cqPc' = "page"
                    /\ UNCHANGED cqErr
    /\ UNCHANGED <<cqRes, after, total, cqYield, sink>>
    /\ UNCHANGED notCq

\* line 234: after = data["pageInfo"]["endCursor"]
CqStaleAfter(a, resp) == a
CqNextAfter(a, resp) == resp.endCursor

\* lines 226-234: every edge's node is yielded, then pageInfo is read:
\* KeyError without it, break when hasNextPage is false
CqConsume ==
    /\ cqPc = "page"
    /\ cqYield' = cqYield \o cqResp.edges
    /\ total' = total + Len(cqResp.edges)
    /\ IF ~cqResp.hasPageInfo
       THEN /\ cqPc' = "raised"
            /\ cqErr' = "KeyError"
            /\ UNCHANGED after
       ELSE IF ~cqResp.hasNextPage
       THEN /\ cqPc' = "exhausted"
            /\ UNCHANGED <<after, cqErr>>
       ELSE /\ after' = CqNextAfter(after, cqResp)
            /\ cqPc' = "request"
            /\ UNCHANGED cqErr
    /\ UNCHANGED <<cqRes, cqServer, cqResp, cqReqs, sink>>
    /\ UNCHANGED notCq

\* line 238: the generator is exhausted and pipeline.run writes what it
\* yielded, with the resource's write disposition "replace" (line 212)
CqLoaded ==
    /\ cqPc = "exhausted"
    /\ sink' = SinkPut(sink, cqRes, "replace", cqYield)
    /\ cqPc' = "returned"
    /\ UNCHANGED <<cqRes, cqServer, after, total, cqResp, cqReqs, cqYield,
                   cqErr>>
    /\ UNCHANGED notCq

\* lines 240-241: the exception leaves pipeline.run with nothing written,
\* is printed, and the loader returns
CqFailed ==
    /\ cqPc = "raised"
    /\ cqPc' = "returned"
    /\ UNCHANGED <<cqRes, cqServer, after, total, cqResp, cqReqs, cqYield,
                   cqErr, sink>>
    /\ UNCHANGED notCq

CqNext ==
    \/ CqStart
    \/ CqRequest
    \/ CqConsume
    \/ CqLoaded
    \/ CqFailed

SpecCursor == CqInit /\ [][CqNext]_vars

(***************************************************************************)
(* load_inventory_levels_gql (shopify_extras.py 6-138)                     *)
(***************************************************************************)
\* how the locations request of lines 32-34 can end
IvLocOutcomes == {"ok", "http_error", "transport"}

\* how one inventoryLevels request of lines 93-100 can end: a page, a page
\* without pageInfo, data.location null, location.inventoryLevels null, a
\* 4xx/5xx status, a transport error
IvOutcomes == {"ok", "no_pageInfo", "location_null", "no_inventoryLevels",
               "http_error", "transport"}

\* an entry of the loader's history: a request (with the location and the
\* cursor it sent and the number of edges it was answered with), a sink
\* call (with the number of records handed over), a sleep
Event(ev, loc, a, n) == [ev |-> ev, loc |-> loc, after |-> a, n |-> n]

\* lines 120-122: the node tagged with the location it was fetched for
IvRecord(node, loc_id) == [node |-> node, location_id |-> loc_id]

\* What the sink may hold of inventory_levels when the loader is called:
\* nothing, or what an earlier call left for a shop whose one location has
\* one inventory level (the sink is all that outlives a call).
IvPriorRuns == {<<>>, <<IvRecord(PageNodes(1, 1)[1], 1)>>}

IvInit ==
    /\ ivPrior \in IvPriorRuns
    /\ locations = <<>>
    /\ ivLoc = 0
    /\ ivServer = <<>>
    /\ ivAfter = None
    /\ has_next_page = FALSE
    /\ total_records = 0
    /\ loc_total = 0
    /\ ivPc = "start"
    /\ ivResp = NoResp
    /\ ivLast = NoLast
    /\ ivTrace = <<>>
    /\ ivErr = "none"
    /\ sink = [r \in SinkResources |->
                  IF r = "inventory_levels" THEN ivPrior ELSE <<>>]
    /\ ConfigAny
    /\ BfIdle
    /\ LaIdle
    /\ CqIdle
    /\ EnIdle
    /\ FoIdle

\* lines 9-13: without the shop URL or the token the loader logs a warning
\* and returns
IvStart ==
    /\ ivPc = "start"
    /\ ivPc' = IF ConfigMissing(shop_url, access_token) THEN "returned"
              ELSE "locations"
    /\ UNCHANGED <<ivPrior, locations, ivLoc, ivServer, ivAfter,
                   has_next_page, total_records, loc_total, ivResp, ivLast,
                   ivTrace, ivErr, sink>>
    /\ UNCHANGED notIv

\* lines 32-45 and 81-90: the single locations request; an exception goes
\* to the except of line 137, no location returns at line 43, otherwise the
\* for loop starts on the first location
IvLocations ==
    /\ ivPc = "locations"
    /\ \E outcome \in IvLocOutcomes :
         IF outcome # "ok"
         THEN /\ ivErr' = outcome
              /\ ivPc' = "returned"
              /\ UNCHANGED <<locations, ivLoc, has_next_page>>
         ELSE \E n \in 0..MaxLocs :
              /\ locations' = [k \in 1..n |-> k]
              /\ ivLoc' = IF n = 0 THEN 0 ELSE 1
              /\ has_next_page' = (n > 0)
              /\ ivPc' = IF n = 0 THEN "returned" ELSE "request"
              /\ UNCHANGED ivErr
    /\ ivTrace' = Append(ivTrace, Event("locations", 0, None, 0))
    /\ UNCHANGED <<ivPrior, ivServer, ivAfter, total_records, loc_total,
                   ivResp, ivLast, sink>>
    /\ UNCHANGED notIv

\* The while loop of line 92 is left (its condition is false, or a break)
\* with the locals at has_next, cursor and count: the for loop of line 83
\* takes the next location and resets them (lines 86-88), or ends (line 135).
IvLeaveLocation(has_next, cursor, count) ==
    IF ivLoc < Len(locations)
    THEN /\ ivLoc' = ivLoc + 1
         /\ ivAfter' = None
         /\ has_next_page' = TRUE
         /\ loc_total' = 0
         /\ ivServer' = <<>>
         /\ ivPc' = "request"
    ELSE /\ ivPc' = "returned"
         /\ ivAfter' = cursor
         /\ has_next_page' = has_next
         /\ loc_total' = count
         /\ UNCHANGED <<ivLoc, ivServer>>

\* lines 93-114: one inventoryLevels request and the checks that break out
\* of the while loop; an exception goes to the except of line 137
IvRequest ==
    /\ ivPc = "request"
    /\ \E outcome \in IvOutcomes :
         CASE outcome \in {"http_error", "transport"} ->
                /\ ivTrace' = Append(ivTrace, Event("request",
                                         locations[ivLoc], ivAfter, 0))
                /\ ivErr' = outcome
                /\ ivPc' = "returned"
                /\ UNCHANGED <<ivLoc, ivAfter, has_next_page, loc_total,
                               ivServer, ivResp, ivLast>>
           [] outcome \in {"location_null", "no_inventoryLevels"} ->
                /\ ivTrace' = Append(ivTrace, Event("request",
                                         locations[ivLoc], ivAfter, 0))
                /\ IvLeaveLocation(has_next_page, ivAfter, loc_total)
                /\ ivLast' = [loc |-> locations[ivLoc], page |-> 0, n |-> 0,
                              shape |-> outcome, hasNextPage |-> FALSE]
                /\ UNCHANGED <<ivErr, ivResp>>
           [] OTHER ->
                LET i == PageFor(ivAfter)
                IN /\ i <= Len(ivServer) + 1
                   /\ \E pg \in IF i <= Len(ivServer) THEN {ivServer[i]}
                                ELSE ServerPages(i, MaxLocPages,
                                                 MaxLocNodes) :
                        /\ ivTrace' = Append(ivTrace, Event("request",
                                         locations[ivLoc], ivAfter, pg.n))
                        /\ ivLast' = [loc |-> locations[ivLoc], page |-> i,
                                      n |-> pg.n, shape |-> outcome,
                                      hasNextPage |-> pg.hasNextPage]
                        /\ IF pg.n = 0
                           THEN \* line 113: if not edges: break
                                /\ IvLeaveLocation(has_next_page, ivAfter,
                                                   loc_total)
                                /\ UNCHANGED ivResp
                           ELSE /\ ivServer' = IF i <= Len(ivServer)
                                               THEN ivServer
                                               ELSE Append(ivServer, pg)
                                /\ ivResp' = Response(i, pg, outcome)
                                /\ ivPc' = "page"
                                /\ UNCHANGED <<ivLoc, ivAfter, has_next_page,
                                               loc_total>>
                   /\ UNCHANGED ivErr
    /\ UNCHANGED <<ivPrior, locations, total_records, sink>>
    /\ UNCHANGED notIv

\* lines 130-132: pageInfo is read with defaults, so a response without it
\* reads as hasNextPage = False, endCursor = None
IvHasNext(resp) == IF resp.hasPageInfo THEN resp.hasNextPage ELSE FALSE
IvEndCursor(resp) == IF resp.hasPageInfo THEN resp.endCursor ELSE None

\* line 125: dlt.resource(records, name="inventory_levels") is given no
\* write disposition, so the resource has dlt's default
IvWriteReplace == "replace"
IvWriteDisposition == "append"

\* lines 126-127: total_records += len(records), loc_total += len(records)
IvCountAfter(count, records) == count + Len(records)

\* lines 116-133: the page's records go to the sink in a pipeline.run of
\* their own, the counters advance, pageInfo is read, the loop sleeps and
\* tests its condition; when pipeline.run raises, nothing of the page is
\* written or counted and the exception goes to the except of line 137
IvConsume ==
    /\ ivPc = "page"
    /\ LET loc_id == locations[ivLoc]
           records == [j \in 1..Len(ivResp.edges) |->
                          IvRecord(ivResp.edges[j], loc_id)]
       IN \/ /\ sink' = SinkPut(sink, "inventory_levels",
                                IvWriteDisposition, records)
             /\ total_records' = IvCountAfter(total_records, records)
             /\ ivTrace' = ivTrace \o
                    << Event("sink", loc_id, None, Len(records)),
                       Event("sleep", loc_id, None, 0) >>
             /\ IF IvHasNext(ivResp)
                THEN /\ has_next_page' = TRUE
                     /\ ivAfter' = IvEndCursor(ivResp)
                     /\ loc_total' = IvCountAfter(loc_total, records)
                     /\ ivPc' = "request"
                     /\ UNCHANGED <<ivLoc, ivServer>>
                ELSE IvLeaveLocation(FALSE, IvEndCursor(ivResp),
                                     IvCountAfter(loc_total, records))
             /\ UNCHANGED ivErr
          \/ /\ ivErr' = "sink"
             /\ ivPc' = "returned"
             /\ ivTrace' = Append(ivTrace,
                    Event("sink_failed", loc_id, None, Len(records)))
             /\ UNCHANGED <<sink, total_records, loc_total, ivLoc, ivAfter,
                            has_next_page, ivServer>>
    /\ UNCHANGED <<ivPrior, locations, ivResp, ivLast>>
    /\ UNCHANGED notIv

IvNext ==
    \/ IvStart
    \/ IvLocations
    \/ IvRequest
    \/ IvConsume

SpecInventory == IvInit /\ [][IvNext]_vars

(***************************************************************************)
(* The Link header of the REST endpoint.  A header value is a sequence of  *)
(* tokens: the punctuation characters the code handles, a URL, a rel       *)
(* attribute.                                                              *)
(***************************************************************************)
Tok(t) == [t |-> t, k |-> 0]
\* the URL of the k-th page of the collection (k = 1: ...json?limit=250)
UrlTok(k) == [t |-> "url", k |-> k]
Lt == Tok("<")
Gt == Tok(">")
Semi == Tok(";")
Comma == Tok(",")
Sp == Tok(" ")
RelTok(rel) == Tok(rel)
RelNext == RelTok("rel=\"next\"")
RelPrevious == RelTok("rel=\"previous\"")

\* one entry, <url>; rel="...", as the endpoint writes it
EntryTokens(e) == <<Lt, UrlTok(e.url), Gt, Semi, Sp, RelTok(e.rel)>>

\* the header value for a list of entries: the entries joined by ", "
RECURSIVE LinkHeader(_)
LinkHeader(entries) ==
    IF entries = <<>> THEN <<>>
    ELSE IF Len(entries) = 1 THEN EntryTokens(entries[1])
    ELSE EntryTokens(entries[1]) \o <<Comma, Sp>> \o LinkHeader(Tail(entries))

\* 'rel="next"' in link_header
StrContains(h, tok) == \E i \in 1..Len(h) : h[i] = tok

\* link_header.split(";")[0]
StrSplitFirst(h, sep) ==
    LET at == {i \in 1..Len(h) : h[i] = sep}
    IN IF at = {} THEN h
       ELSE SubSeq(h, 1, (CHOOSE i \in at : \A j \in at : i <= j) - 1)

\* .strip("<>"): the characters < and > are dropped from both ends
RECURSIVE StrStrip(_, _)
StrStrip(h, chars) ==
    IF h = <<>> THEN h
    ELSE IF h[1] \in chars THEN StrStrip(Tail(h), chars)
    ELSE IF h[Len(h)] \in chars THEN StrStrip(SubSeq(h, 1, Len(h) - 1), chars)
    ELSE h

\* the URL of the entry whose rel is rel, if there is one
EntryWithRel(entries, rel) ==
    LET at == {i \in 1..Len(entries) : entries[i].rel = rel}
    IN IF at = {} THEN None
       ELSE <<UrlTok(entries[CHOOSE i \in at : \A j \in at : i <= j].url)>>

\* lines 262-266 (433-437, 508-512): next_url from the Link header
ParseNext(link_header) ==
    IF StrContains(link_header, RelNext)
    THEN StrStrip(StrSplitFirst(link_header, Semi), {Lt, Gt})
    ELSE None

(***************************************************************************)
(* The parent-id enumeration loops: load_pages_metafields 254-266,         *)
(* load_products_metafields 422-439 and 498-512 (the copy in its except    *)
(* handler), load_collections_metafields 294-299 (a single request)        *)
(***************************************************************************)
EnLoops == {"pages", "products", "products_handler", "custom_collections"}

\* how one requests.get of the loop can end: a page, a body without the
\* resource key, a 4xx/5xx status, a transport error
EnOutcomes == {"ok", "no_key", "http_error", "transport"}

\* A page the endpoint may serve as its k-th: up to MaxIds parents; a next
\* page unless it is the last the model lets it have; and, when its Link
\* header has both entries, either order of them.
RestPages(k) ==
    LET more == IF k < MaxRestPages THEN BOOLEAN ELSE {FALSE}
    IN UNION { { [n |-> n, hasMore |-> h, prevFirst |-> pf] :
                   n \in 0..MaxIds,
                   pf \in IF k > 1 /\ h THEN BOOLEAN ELSE {FALSE} } :
               h \in more }

\* the entries of the k-th page's Link header
LinkEntries(k, pg) ==
    LET prev == IF k > 1 THEN <<[url |-> k - 1, rel |-> RelPrevious.t]>>
                ELSE <<>>
        next == IF pg.hasMore THEN <<[url |-> k + 1, rel |-> RelNext.t]>>
                ELSE <<>>
    IN IF pg.prevFirst THEN prev \o next ELSE next \o prev

\* the ids of the parents on the k-th page
PageIds(k, n) == [j \in 1..n |-> <<k, j>>]

\* resp.json()["pages"] raises KeyError without the key (lines 259, 298,
\* 504); resp.json().get("products", []) reads it as an empty list (430)
EnKeyRequired(loop) == loop # "products"

\* the loops follow the Link header; load_collections_metafields makes
\* its one request and goes on
EnFollowsLink(loop) == loop # "custom_collections"

EnInit ==
    /\ enLoop \in EnLoops
    /\ enServer = <<>>
    /\ enUrl = <<UrlTok(1)>>
    /\ enIds = <<>>
    /\ enPc = "loop"
    /\ enEntries = <<>>
    /\ enNextUrl = None
    /\ enReqs = <<>>
    /\ enErr = "none"
    /\ SinkEmpty
    /\ ConfigSet
    /\ BfIdle
    /\ LaIdle
    /\ CqIdle
    /\ IvIdle
    /\ FoIdle

\* one iteration of the while loop (lines 256-266): the request, the ids
\* of the page, next_url from the Link header, and the loop test
EnRequest ==
    /\ enPc = "loop"
    /\ Len(enReqs) < MaxEnumReqs
    /\ Len(enUrl) = 1
    /\ enUrl[1].t = "url"
    /\ LET k == enUrl[1].k
       IN /\ k <= Len(enServer) + 1
          /\ \E outcome \in EnOutcomes :
               /\ enReqs' = Append(enReqs, [page |-> k, outcome |-> outcome])
               /\ IF \/ outcome \in {"http_error", "transport"}
                     \/ outcome = "no_key" /\ EnKeyRequired(enLoop)
                  THEN /\ enPc' = "raised"
                       /\ enErr' = IF outcome = "no_key" THEN "KeyError"
                                   ELSE outcome
                       /\ UNCHANGED <<enServer, enUrl, enIds, enEntries,
                                      enNextUrl>>
                  ELSE \E pg \in IF k <= Len(enServer) THEN {enServer[k]}
                                 ELSE RestPages(k) :
                       LET entries == LinkEntries(k, pg)
                           next_url == IF EnFollowsLink(enLoop)
                                       THEN ParseNext(LinkHeader(entries))
                                       ELSE None
                       IN /\ enServer' = IF k <= Len(enServer) THEN enServer
                                         ELSE Append(enServer, pg)
                          /\ enIds' = IF outcome = "ok"
                                      THEN enIds \o PageIds(k, pg.n)
                                      ELSE enIds
                          /\ enEntries' = entries
                          /\ enNextUrl' = next_url
                          /\ enUrl' = next_url
                          /\ enPc' = IF next_url = None THEN "done"
                                     ELSE "loop"
                          /\ UNCHANGED enErr
    /\ UNCHANGED enLoop
    /\ UNCHANGED notEn

EnNext ==
    \/ EnRequest

SpecEnum == EnInit /\ [][EnNext]_vars

(***************************************************************************)
(* Claims about the Link-header strategy                                   *)
(***************************************************************************)
\* C4: whatever the order of the header's entries, the next token is the
\* URL of the entry whose rel is next, and there are no more pages exactly
\* when no entry has rel = next.
C4_LinkHeaderNext ==
    (enPc \in {"loop", "done"} /\ Len(enReqs) > 0 /\ EnFollowsLink(enLoop)) =>
        /\ enNextUrl = EntryWithRel(enEntries, RelNext.t)
        /\ (enPc = "done") = (\A i \in 1..Len(enEntries) :
                                 enEntries[i].rel # RelNext.t)

\* the parent ids of the first k pages the endpoint served, in chain order
RECURSIVE EnIdsUpTo(_)
EnIdsUpTo(k) ==
    IF k = 0 THEN <<>>
    ELSE EnIdsUpTo(k - 1) \o PageIds(k, enServer[k].n)

\* C15: on a chain of pages whose every non-last page has a rel="next"
\* entry (on middle pages possibly after the rel="previous" one) and whose
\* last page has none, the loops of load_pages_metafields and
\* load_products_metafields request page 1, 2, 3, ... each once in chain
\* order, and stop only after the last page with every parent id collected
\* once.
C15_EnumerationExhaustive ==
    (/\ enLoop \in {"pages", "products", "products_handler"}
     /\ \A i \in 1..Len(enReqs) : enReqs[i].outcome = "ok") =>
        /\ \A i \in 1..Len(enReqs) : enReqs[i].page = i
        /\ Len(enServer) = Len(enReqs)
        /\ enIds = EnIdsUpTo(Len(enServer))
        /\ (enPc = "done") =
              (Len(enServer) > 0 /\ ~enServer[Len(enServer)].hasMore)

\* C16: the parent enumeration ends only at a page of the parent collection
\* that has no page after it, so no parent of a later page is left out of
\* the fan-out.
C16_ParentsExhausted ==
    (enPc = "done" /\ \A i \in 1..Len(enReqs) : enReqs[i].outcome = "ok") =>
        /\ ~enServer[Len(enServer)].hasMore
        /\ enIds = EnIdsUpTo(Len(enServer))

(***************************************************************************)
(* The REST fan-out loaders: load_pages_metafields (244-281),              *)
(* load_collections_metafields (284-313), load_products_metafields         *)
(* (409-529).  The enumeration loop, modelled step by step above, is one   *)
(* step here: it ends with a list of parent ids or with an exception.      *)
(***************************************************************************)
FoLoaders == {"pages_metafields", "collections_metafields",
              "products_metafields"}

\* how one per-parent requests.get can end: the metafields, a body without
\* the "metafields" key, a 4xx/5xx status, a transport error
FoOutcomes == {"ok", "no_key", "http_error", "transport"}

FoEvent(ev, pid, outcome, m) ==
    [ev |-> ev, pid |-> pid, outcome |-> outcome, m |-> m]

\* the field the loader writes its parent's id to (lines 275, 307, 462, 524)
FoParentKey(loader) ==
    CASE loader = "pages_metafields" -> "page_id"
      [] loader = "collections_metafields" -> "collection_id"
      [] loader = "products_metafields" -> "product_id"

\* lines 461-464: total_metafields += 1 for each of the m metafields yielded
FoCountRequests(count, m) == count + 1
FoCountAfter(count, m) == count + m

\* lines 275, 307, 462, 524: the j-th metafield of the response, tagged
\* with the id of the parent the loop is at
FoRecordStale(pid, j) ==
    [id |-> <<pid, j>>, fk |-> FoParentKey(foLoader), parent_id |-> foIds[1]]
FoRecord(pid, j) ==
    [id |-> <<pid, j>>, fk |-> FoParentKey(foLoader), parent_id |-> pid]
FoRecords(pid, m) == [j \in 1..m |-> FoRecord(pid, j)]

\* resp.json()["metafields"] (lines 274, 306) raises KeyError without the
\* key; resp.json().get("metafields", []) (lines 459, 522) reads it as empty
FoKeyRequired(loader) == loader # "products_metafields"

\* lines 455-478: only the generator of the main body of
\* load_products_metafields wraps the per-parent fetch in try/except
\* RequestException (warning, sleep, continue)
FoIsolates(loader, phase) == loader = "products_metafields" /\ phase = "main"

FoInit ==
    /\ foLoader \in FoLoaders
    /\ foPhase = "main"
    /\ foPc = "start"
    /\ foIds = <<>>
    /\ foAt = 0
    /\ foYield = <<>>
    /\ total_metafields = 0
    /\ foTrace = <<>>
    /\ foWarned = <<>>
    /\ foErr = "none"
    /\ foPasses = 0
    /\ SinkEmpty
    /\ ConfigAny
    /\ BfIdle
    /\ LaIdle
    /\ CqIdle
    /\ IvIdle
    /\ EnIdle

\* An exception reaches the loader's try.  The except of the pages and
\* collections loaders prints it and the loader returns (lines 280-281,
\* 312-313).  The except of load_products_metafields logs it and then runs
\* the load again from the enumeration, outside any try (lines 487-529),
\* so an exception there leaves the loader.  trace is the pass's history
\* up to the exception.
FoRaise(err, trace) ==
    /\ foErr' = err
    /\ IF foPhase = "handler"
       THEN /\ foPc' = "escaped"
            /\ foTrace' = trace
            /\ UNCHANGED <<foPhase, foIds, foAt, foYield>>
       ELSE IF foLoader = "products_metafields"
       THEN /\ foPhase' = "handler"
            /\ foPc' = "start"
            /\ foIds' = <<>>
            /\ foAt' = 0
            /\ foYield' = <<>>
            /\ foTrace' = <<>>
       ELSE /\ foPc' = "returned"
            /\ foTrace' = trace
            /\ UNCHANGED <<foPhase, foIds, foAt, foYield>>

\* lines 246-249, 286-289, 412-416, and 489-492 in the except handler of
\* load_products_metafields: without the shop URL or the token the loader
\* returns
FoStart ==
    /\ foPc = "start"
    /\ foPc' = IF ConfigMissing(shop_url, access_token) THEN "returned"
              ELSE "enumerate"
    /\ UNCHANGED <<foLoader, foPhase, foIds, foAt, foYield, total_metafields,
                   foTrace, foWarned, foErr, foPasses, sink>>
    /\ UNCHANGED notFo

\* Where the loader goes with the n ids of a finished enumeration: the
\* main body of load_products_metafields returns when there is none (lines
\* 441-443); otherwise the generator is built and pipeline.run iterates it,
\* requesting parent after parent, or nothing when there is no parent.
FoAfterEnumNoReturn(loader, phase, n) == IF n > 0 THEN "fanout" ELSE "run"
FoAfterEnumPc(loader, phase, n) ==
    IF n > 0 THEN "fanout"
    ELSE IF loader = "products_metafields" /\ phase = "main" THEN "returned"
    ELSE "run"

\* the enumeration (lines 254-266, 294-299, 422-443, 497-512): the ids, or
\* an exception
FoEnumerate ==
    /\ foPc = "enumerate"
    /\ foPasses' = foPasses + 1
    /\ \/ FoRaise("enumeration", foTrace)
       \/ \E n \in 0..MaxParents :
            /\ foIds' = [k \in 1..n |-> k]
            /\ foAt' = 1
            /\ foPc' = FoAfterEnumPc(foLoader, foPhase, n)
            /\ UNCHANGED <<foPhase, foYield, foTrace, foErr>>
    /\ UNCHANGED <<foLoader, total_metafields, foWarned, sink>>
    /\ UNCHANGED notFo

\* one iteration of the generator's for loop (lines 270-276, 303-308,
\* 454-478, 517-526): the request for one parent, then its metafields
\* tagged and yielded, or the exception
FoFetch ==
    /\ foPc = "fanout"
    /\ LET pid == foIds[foAt]
           advance == /\ foAt' = foAt + 1
                      /\ foPc' = IF foAt < Len(foIds) THEN "fanout" ELSE "run"
                      /\ UNCHANGED <<foPhase, foIds, foErr>>
       IN \E outcome \in FoOutcomes :
            \E m \in IF outcome = "ok" THEN 0..MaxMeta ELSE {0} :
              IF \/ outcome \in {"http_error", "transport"}
                 \/ outcome = "no_key" /\ FoKeyRequired(foLoader)
              THEN IF FoIsolates(foLoader, foPhase)
                   THEN /\ foTrace' = foTrace \o
                              << FoEvent("request", pid, outcome, 0),
                                 FoEvent("sleep", pid, "none", 0) >>
                        /\ foWarned' = Append(foWarned, pid)
                        /\ advance
                        /\ UNCHANGED <<foYield, total_metafields>>
                   ELSE /\ FoRaise(IF outcome = "no_key" THEN "KeyError"
                                   ELSE outcome,
                                   Append(foTrace,
                                          FoEvent("request", pid, outcome, 0)))
                        /\ UNCHANGED <<foWarned, total_metafields>>
              ELSE /\ foTrace' = Append(foTrace,
                                        FoEvent("request", pid, outcome, m))
                   /\ foYield' = foYield \o FoRecords(pid, m)
                   /\ total_metafields' =
                          IF foPhase = "main"
                             /\ foLoader = "products_metafields"
                          THEN FoCountAfter(total_metafields, m)
                          ELSE total_metafields
                   /\ advance
                   /\ UNCHANGED foWarned
    /\ UNCHANGED <<foLoader, foPasses, sink>>
    /\ UNCHANGED notFo

\* pipeline.run (lines 278, 310, 480, 529) has exhausted the generator
\* and loads what it yielded, write disposition "replace" (lines 268, 301,
\* 451, 514); the load itself may raise
FoRun ==
    /\ foPc = "run"
    /\ \/ /\ sink' = SinkPut(sink, foLoader, "replace", foYield)
          /\ foPc' = "returned"
          /\ UNCHANGED <<foPhase, foIds, foAt, foYield, foTrace, foErr>>
       \/ /\ FoRaise("sink", foTrace)
          /\ UNCHANGED sink
    /\ UNCHANGED <<foLoader, total_metafields, foWarned, foPasses>>
    /\ UNCHANGED notFo

FoNext ==
    \/ FoStart
    \/ FoEnumerate
    \/ FoFetch
    \/ FoRun

SpecFanout == FoInit /\ [][FoNext]_vars

(***************************************************************************)
(* Claims about the fan-out loaders                                        *)
(***************************************************************************)
FoRequests == SelectSeq(foTrace, LAMBDA e : e.ev = "request")

\* the records of the parents whose fetch succeeded, in request order
RECURSIVE FoFetched(_)
FoFetched(reqs) ==
    IF reqs = <<>> THEN <<>>
    ELSE (IF reqs[1].outcome = "ok" THEN FoRecords(reqs[1].pid, reqs[1].m)
          ELSE <<>>) \o FoFetched(Tail(reqs))

\* the run had exactly one failure: a 4xx/5xx status on one parent's fetch
FoOneHttpFailure ==
    /\ foPhase = "main"
    /\ foErr \in {"none", "http_error"}
    /\ Cardinality({i \in 1..Len(FoRequests) :
                       FoRequests[i].outcome = "http_error"}) = 1
    /\ \A i \in 1..Len(FoRequests) :
          FoRequests[i].outcome \in {"ok", "http_error"}

\* C2: when the fetch of one parent k of N raises a business HTTP error,
\* the loader has, by the time it ends, attempted all N parents, forwarded
\* the records of the N-1 others to the sink, and reported that one
\* failure (a warning naming parent k, or the loader's own failure line).
C2_FanOutIsolation ==
    (foPc \in {"returned", "escaped"} /\ FoOneHttpFailure) =>
        /\ Len(FoRequests) = Len(foIds)
        /\ \A i \in 1..Len(foIds) : FoRequests[i].pid = foIds[i]
        /\ sink[foLoader] = FoFetched(FoRequests)
        /\ \/ foWarned = <<>> /\ foErr = "http_error"
           \/ /\ Len(foWarned) = 1
              /\ \E i \in 1..Len(FoRequests) :
                    /\ FoRequests[i].outcome = "http_error"
                    /\ FoRequests[i].pid = foWarned[1]

\* C17: one call of load_products_metafields runs the product-id
\* enumeration at most once and the per-product fan-out at most once: once
\* an exception has reached the loader's except clause, no enumeration is
\* started again and no per-product request is sent.
C17_NoBlindRerun ==
    foLoader = "products_metafields" =>
        /\ foPasses <= 1
        /\ foPhase = "handler" => FoRequests = <<>>

\* C20: in the fan-out loop no two outbound requests follow one another
\* without a delay step between them.
C20_ThrottleBetweenRequests ==
    \A i \in 1..(Len(foTrace) - 1) :
        foTrace[i].ev = "request" => foTrace[i + 1].ev = "sleep"

(***************************************************************************)
(* Claims about the inventory-levels loop                                  *)
(***************************************************************************)
\* the records the trace says were handed to the sink: each sink call
\* carries the first n nodes of the page its request asked for, tagged with
\* the location the request named
RECURSIVE IvTraceRecords(_, _)
IvTraceRecords(trace, req) ==
    IF trace = <<>> THEN <<>>
    ELSE LET e == Head(trace)
         IN IF e.ev = "request" THEN IvTraceRecords(Tail(trace), e)
            ELSE IF e.ev = "sink"
            THEN [j \in 1..e.n |-> [node |-> <<PageFor(req.after), j>>,
                                     location_id |-> req.loc]]
                 \o IvTraceRecords(Tail(trace), req)
            ELSE IvTraceRecords(Tail(trace), req)

\* the records this call of the loader forwarded
IvForwarded == IvTraceRecords(ivTrace, Event("none", 0, None, 0))

\* C13: a second run over identical upstream data leaves the resource as
\* the first run left it: when the loader ends normally having forwarded
\* exactly the records an earlier run had written, the sink holds those
\* records once.
C13_IdempotentRerun ==
    (ivPc = "returned" /\ ivErr = "none" /\ ivPrior # <<>>
       /\ IvForwarded = ivPrior) =>
        sink["inventory_levels"] = ivPrior

\* C3: a page with zero records and hasNextPage = true does not end the
\* sequence: after it the loop is still on the same location, about to
\* request the page after that page's endCursor.
C3_EmptyPageContinues ==
    (ivLast.shape = "ok" /\ ivLast.n = 0 /\ ivLast.hasNextPage) =>
        /\ ivPc = "request"
        /\ locations[ivLoc] = ivLast.loc
        /\ ivAfter = Cursor(ivLast.page)

\* C8: a response without pageInfo makes the fetch fail at once: once such
\* a response (here one that carries records) has been handled, the load
\* has failed and none of that page's records has been forwarded to the
\* sink.
C8_MalformedIsFatal ==
    (ivLast.shape = "no_pageInfo" /\ ivLast.n > 0 /\ ivPc # "page") =>
        /\ ivErr # "none"
        /\ ivPc = "returned"
        /\ \A k \in (Len(ivPrior) + 1)..Len(sink["inventory_levels"]) :
              ~(/\ sink["inventory_levels"][k].location_id = ivLast.loc
                /\ sink["inventory_levels"][k].node[1] = ivLast.page)

(***************************************************************************)
(* Claims about the cursor-paginated generators                            *)
(***************************************************************************)
\* the nodes of the first k pages the endpoint served, in server order
RECURSIVE NodesUpTo(_)
NodesUpTo(k) ==
    IF k = 0 THEN <<>>
    ELSE NodesUpTo(k - 1) \o PageNodes(k, cqServer[k].n)

\* C1: the k-th request carries the endCursor of the (k-1)-th response
\* (none on the first), so there is one request per page; a request follows
\* a page only if that page said hasNextPage; and a generator that ends
\* normally has yielded exactly the concatenation of all pages' nodes, the
\* last page being the one with hasNextPage = false.
C1_CursorPagination ==
    /\ \A k \in 1..Len(cqReqs) :
          /\ cqReqs[k].after = IF k = 1 THEN None ELSE Cursor(k - 1)
          /\ k > 1 => /\ cqServer[k - 1].hasNextPage
                      /\ cqReqs[k - 1].outcome = "ok"
    /\ Len(cqServer) <= Len(cqReqs)
    /\ Len(cqReqs) <= Len(cqServer) + 1
    /\ cqPc = "request" => cqYield = NodesUpTo(Len(cqServer))
    /\ (cqPc \in {"exhausted", "returned"} /\ cqErr = "none"
           /\ ~ConfigMissing(shop_url, access_token)) =>
          /\ Len(cqReqs) = Len(cqServer)
          /\ ~cqServer[Len(cqServer)].hasNextPage
          /\ \A k \in 1..(Len(cqServer) - 1) : cqServer[k].hasNextPage
          /\ cqYield = NodesUpTo(Len(cqServer))
          /\ total = Len(cqYield)

C1_Witness ==
    /\ cqPc = "returned"
    /\ cqErr = "none"
    /\ cqRes = "articles"
    /\ Len(cqServer) = 3
    /\ cqServer[1].n = 2
    /\ cqServer[2].n = 1
    /\ cqServer[3].n = 2
    /\ cqYield = << <<1, 1>>, <<1, 2>>, <<2, 1>>, <<3, 1>>, <<3, 2>> >>
    /\ Len(cqReqs) = 3

\* C12: when a page request of a top-level pagination is answered with a
\* 4xx/5xx status, the load ends with that request as its last one, nothing
\* is written for the resource, and run_loader records the loader as
\* failed, not as complete.
C12_HttpErrorIsFailure ==
    (cqPc = "returned" /\ cqErr = "http_error") =>
        /\ cqReqs[Len(cqReqs)].outcome = "http_error"
        /\ \A i \in 1..(Len(cqReqs) - 1) : cqReqs[i].outcome = "ok"
        /\ sink[cqRes] = <<>>
        /\ RunLoaderLogged(LoaderOutcome(cqPc, cqErr)) = "failed"

\* C9: a load that failed on a transport error had re-issued the failing
\* page request once: its last two requests are the same request, both
\* ended by a transport error.
C9_TransportRetried ==
    cqErr = "transport" =>
        /\ Len(cqReqs) >= 2
        /\ cqReqs[Len(cqReqs)].outcome = "transport"
        /\ cqReqs[Len(cqReqs) - 1].outcome = "transport"
        /\ cqReqs[Len(cqReqs)].after = cqReqs[Len(cqReqs) - 1].after

(***************************************************************************)
(* The secondary loaders together: one call of any one of the seven        *)
(* loaders run_loader is given (shopify_dlt_pipeline.py 73-79)             *)
(***************************************************************************)
SecondaryInit ==
    \/ CqInit
    \/ IvInit
    \/ FoInit

SecondaryNext ==
    \/ CqStart
    \/ CqRequest
    \/ CqConsume
    \/ CqLoaded
    \/ CqFailed
    \/ IvStart
    \/ IvLocations
    \/ IvRequest
    \/ IvConsume
    \/ FoStart
    \/ FoEnumerate
    \/ FoFetch
    \/ FoRun

SpecSecondary == SecondaryInit /\ [][SecondaryNext]_vars

(***************************************************************************)
(* Claims about every secondary loader                                     *)
(***************************************************************************)
\* what the sink held when the loader was called
SinkAtCall == [r \in SinkResources |->
                 IF r = "inventory_levels" THEN ivPrior ELSE <<>>]

\* C14: with the shop URL or the access token absent, whichever loader is
\* called returns normally having sent no request and written nothing to
\* the sink, and run_loader records it as complete, not as failed.
C14_MissingConfigSkips ==
    (shop_url = None \/ access_token = None) =>
        /\ cqPc \in {"idle", "start", "returned"}
        /\ ivPc \in {"idle", "start", "returned"}
        /\ foPc \in {"idle", "start", "returned"}
        /\ cqReqs = <<>> /\ ivTrace = <<>> /\ foTrace = <<>>
        /\ foPasses = 0
        /\ sink = SinkAtCall
        /\ cqErr = "none" /\ ivErr = "none" /\ foErr = "none"
        /\ RunLoaderLogged(LoaderOutcome(cqPc, cqErr)) = "complete"
        /\ RunLoaderLogged(LoaderOutcome(ivPc, ivErr)) = "complete"
        /\ RunLoaderLogged(LoaderOutcome(foPc, foErr)) = "complete"

C14_Witness ==
    /\ foLoader = "products_metafields"
    /\ foPc = "returned"
    /\ shop_url = ConfigValue
    /\ access_token = None
    /\ foPasses = 0

\* the records the requests of the pass in hand returned, in request
\* order, each carrying the id of the parent its request named under the
\* loader's key
RECURSIVE FoTagged(_, _)
FoTagged(reqs, key) ==
    IF reqs = <<>> THEN <<>>
    ELSE LET r == Head(reqs)
         IN (IF r.outcome = "ok"
             THEN [j \in 1..r.m |->
                     [id |-> <<r.pid, j>>, fk |-> key, parent_id |-> r.pid]]
             ELSE <<>>) \o FoTagged(Tail(reqs), key)

FoKeyOf ==
    [pages_metafields |-> "page_id",
     collections_metafields |-> "collection_id",
     products_metafields |-> "product_id"]

IvRequestsTraced == SelectSeq(ivTrace, LAMBDA e : e.ev = "request")

\* C18: every record a fan-out loader forwards carries, under the loader's
\* key (page_id, collection_id, product_id, location_id), the id of the
\* parent whose request returned it; the parents are requested in the order
\* they were enumerated, and the records reach the sink grouped by parent
\* in that order, each parent's records in server order.
C18_ForeignKeyTagging ==
    /\ foLoader \in FoLoaders =>
          /\ Len(FoRequests) <= Len(foIds)
          /\ \A i \in 1..Len(FoRequests) : FoRequests[i].pid = foIds[i]
          /\ foYield = FoTagged(FoRequests, FoKeyOf[foLoader])
          /\ sink[foLoader] \in {<<>>, foYield}
          /\ foPc = "returned" /\ foErr = "none" /\ foPasses = 1
                /\ Len(foIds) > 0 => sink[foLoader] = foYield
    /\ \A i \in 1..Len(IvRequestsTraced) :
          /\ IvRequestsTraced[i].loc \in 1..Len(locations)
          /\ i > 1 => IvRequestsTraced[i - 1].loc <= IvRequestsTraced[i].loc
    /\ sink["inventory_levels"] = ivPrior \o IvForwarded

C18_Witness ==
    /\ foLoader = "collections_metafields"
    /\ foPc = "returned"
    /\ foIds = <<1, 2, 3>>
    /\ Len(sink["collections_metafields"]) = 3
    /\ sink["collections_metafields"][1].parent_id = 1
    /\ sink["collections_metafields"][2].parent_id = 1
    /\ sink["collections_metafields"][3].parent_id = 3
    /\ sink["collections_metafields"][3].fk = "collection_id"

\* C19: when the enumeration of load_products_metafields finds no product,
\* or the locations request of load_inventory_levels_gql no location, the
\* loader returns at once: no per-parent request, no exception, nothing
\* written, and run_loader records it as complete.
C19_ZeroParentsNoOp ==
    /\ (/\ foLoader = "products_metafields"
         /\ foPhase = "main"
         /\ foPasses = 1
         /\ foIds = <<>>) =>
            /\ foPc = "returned"
            /\ foErr = "none"
            /\ foTrace = <<>>
            /\ sink = SinkAtCall
            /\ RunLoaderLogged(LoaderOutcome(foPc, foErr)) = "complete"
    /\ (ivTrace # <<>> /\ locations = <<>> /\ ivErr = "none") =>
            /\ ivPc = "returned"
            /\ IvRequestsTraced = <<>>
            /\ sink = SinkAtCall
            /\ RunLoaderLogged(LoaderOutcome(ivPc, ivErr)) = "complete"

C19_Witness ==
    /\ foLoader = "products_metafields"
    /\ foPhase = "main"
    /\ foPasses = 1
    /\ foIds = <<>>
    /\ foPc = "returned"
    /\ shop_url = ConfigValue
    /\ access_token = ConfigValue

\* the records of the location in hand that this call has put in the sink
IvSunkHere ==
    {k \in (Len(ivPrior) + 1)..Len(sink["inventory_levels"]) :
        ivLoc > 0 /\ sink["inventory_levels"][k].location_id = locations[ivLoc]}

\* C21: at every point of load_inventory_levels_gql total_records is the
\* number of records this call has put in the sink and loc_total the number
\* of them that belong to the location in hand; in the generator of the
\* main body of load_products_metafields total_metafields is the number of
\* metafields yielded so far, also after parents whose request failed.
C21_CountersMatch ==
    /\ total_records = Len(sink["inventory_levels"]) - Len(ivPrior)
    /\ loc_total = Cardinality(IvSunkHere)
    /\ (foLoader = "products_metafields" /\ foPhase = "main") =>
          total_metafields = Len(foYield)
    /\ foLoader \in {"none", "pages_metafields", "collections_metafields"} =>
          total_metafields = 0

C21_Witness ==
    /\ foLoader = "products_metafields"
    /\ foPhase = "main"
    /\ foPc = "returned"
    /\ foIds = <<1, 2, 3>>
    /\ foWarned = <<2>>
    /\ total_metafields = 3
    /\ Len(sink["products_metafields"]) = 3

\* the records of the pages the requests reqs were answered with, in
\* request order, each tagged with the location its request named
RECURSIVE IvFetched(_)
IvFetched(reqs) ==
    IF reqs = <<>> THEN <<>>
    ELSE LET r == Head(reqs)
         IN [j \in 1..r.n |-> [node |-> <<PageFor(r.after), j>>,
                               location_id |-> r.loc]]
            \o IvFetched(Tail(reqs))

\* the requests whose page the loader has finished with: all of them, but
\* for the one whose page is in hand or whose sink call has just failed
IvRequestsDone ==
    IF ivPc = "page" \/ ivErr = "sink"
    THEN SubSeq(IvRequestsTraced, 1, Len(IvRequestsTraced) - 1)
    ELSE IvRequestsTraced

\* C22: each non-empty page is handed to the sink in a call of its own
\* before the next request is sent, so at every point, and in particular
\* when a later page or a later location has failed, the sink holds, after
\* what it held at the call, exactly the records of the pages fetched
\* before; and whatever fails, the loader returns normally.
C22_PrefixOnFailure ==
    /\ sink["inventory_levels"] = ivPrior \o IvFetched(IvRequestsDone)
    /\ \A i \in 1..Len(ivTrace) :
          ivTrace[i].ev \in {"sink", "sink_failed"} =>
              /\ i > 1
              /\ ivTrace[i - 1].ev = "request"
              /\ ivTrace[i - 1].n = ivTrace[i].n
              /\ ivTrace[i - 1].loc = ivTrace[i].loc
    /\ \A i \in 1..(Len(ivTrace) - 1) :
          (ivTrace[i].ev = "request" /\ ivTrace[i].n > 0) =>
              ivTrace[i + 1].ev \in {"sink", "sink_failed"}
    /\ ivErr # "none" =>
          /\ ivPc = "returned"
          /\ LoaderOutcome(ivPc, ivErr) = "swallowed"
          /\ RunLoaderEscapes(LoaderOutcome(ivPc, ivErr)) = FALSE

C22_Witness ==
    /\ ivPc = "returned"
    /\ ivErr = "http_error"
    /\ ivPrior = <<>>
    /\ ivLoc = 2
    /\ sink["inventory_levels"] =
          << [node |-> <<1, 1>>, location_id |-> 1],
             [node |-> <<2, 1>>, location_id |-> 1],
             [node |-> <<1, 1>>, location_id |-> 2] >>

=============================================================================
